---- MODULE Spec2Model ----
(***************************************************************************)
(* OpenShock Auto-Flasher: the AutoFlasher controller of                   *)
(* src/openshock_autoflasher/flasher.py as a state machine.                *)
(*                                                                         *)
(* Text is modelled as a sequence of atoms.  An atom is either one of the  *)
(* two whitespace characters " " and "\n", a single hexadecimal digit, or  *)
(* an indivisible non-whitespace word (a file name, a board identifier, a  *)
(* version number, a serial command).  Python's str.strip, str.split and   *)
(* str.lower are computed on these sequences as Python computes them.      *)
(***************************************************************************)
EXTENDS Integers, Sequences, FiniteSets, TLC

\* ------------------------------------------------------------------------
\* Bounds of the model
\* ------------------------------------------------------------------------

\* Times a device is plugged in during one run.
MaxPlugs == 2

\* Calls made by the client of the ApiSpec specification.
MaxCalls == 3

\* Highest value the no-activity counter takes in the model.
MaxChecks == 17

\* ------------------------------------------------------------------------
\* Text
\* ------------------------------------------------------------------------

SP == " "
LF == "\n"
Whitespace == {SP, LF}

RECURSIVE LStrip(_)
LStrip(s) ==
    IF s = <<>> THEN <<>>
    ELSE IF Head(s) \in Whitespace THEN LStrip(Tail(s)) ELSE s

RECURSIVE RStrip(_)
RStrip(s) ==
    IF s = <<>> THEN <<>>
    ELSE IF s[Len(s)] \in Whitespace THEN RStrip(SubSeq(s, 1, Len(s) - 1)) ELSE s

\* str.strip()
Strip(s) == RStrip(LStrip(s))

\* Index of the first occurrence of atom c in s, 0 when there is none.
IndexOf(s, c) ==
    IF \E i \in 1..Len(s) : s[i] = c
    THEN CHOOSE i \in 1..Len(s) : s[i] = c /\ \A j \in 1..(i - 1) : s[j] # c
    ELSE 0

\* str.split("\n"): the pieces between newlines, empty pieces kept.
RECURSIVE SplitLines(_)
SplitLines(s) ==
    LET i == IndexOf(s, LF)
    IN  IF i = 0 THEN <<s>>
        ELSE <<SubSeq(s, 1, i - 1)>> \o SplitLines(SubSeq(s, i + 1, Len(s)))

\* Length of the longest whitespace-free prefix of s.
RECURSIVE WordLen(_)
WordLen(s) ==
    IF s = <<>> \/ Head(s) \in Whitespace THEN 0 ELSE 1 + WordLen(Tail(s))

\* str.split(): the maximal whitespace-free pieces, never an empty one.
RECURSIVE SplitWords(_)
SplitWords(s) ==
    LET t == LStrip(s)
        n == WordLen(t)
    IN  IF t = <<>> THEN <<>>
        ELSE <<SubSeq(t, 1, n)>> \o SplitWords(SubSeq(t, n + 1, Len(t)))

\* " ".join(parts)
RECURSIVE JoinSpace(_)
JoinSpace(parts) ==
    IF parts = <<>> THEN <<>>
    ELSE IF Len(parts) = 1 THEN parts[1]
    ELSE parts[1] \o <<SP>> \o JoinSpace(Tail(parts))

LowerAtom(c) ==
    CASE c = "A" -> "a"
      [] c = "B" -> "b"
      [] c = "C" -> "c"
      [] OTHER   -> c

\* str.lower()
Lower(s) == [i \in DOMAIN s |-> LowerAtom(s[i])]

\* Optional[...] values: None, or a value.
None == [some |-> FALSE, val |-> <<>>]
Some(v) == [some |-> TRUE, val |-> v]

\* Python truthiness of an Optional[str] or Optional[List]: None and the
\* empty string / empty list are false.
Truthy(o) == o.some /\ o.val # <<>>

\* ------------------------------------------------------------------------
\* The firmware server, the serial bus and the flashing tool: what the
\* program can receive from them
\* ------------------------------------------------------------------------

Ports == {"ttyUSB0", "ttyUSB1"}

\* An HTTP reply: raise_for_status() passes (ok) and the body, or a
\* transport failure / non-success status.
HttpOk(text) == [ok |-> TRUE, text |-> text]
HttpFail == [ok |-> FALSE, text |-> <<>>]

\* Bodies of version-<channel>.txt.
VersionTexts ==
    { <<"1.0", LF>>, <<"2.0">>, <<SP, LF>>, <<>> }

VersionReplies == {HttpOk(t) : t \in VersionTexts} \cup {HttpFail}

\* Body of <version>/boards.txt on the server.
BoardsText(version) ==
    CASE version = <<"1.0">> -> <<"b1", LF, "b2", LF>>
      [] version = <<"2.0">> -> <<"b2", SP, LF, LF, "b3">>
      [] OTHER               -> <<>>

KnownVersions == { <<"1.0">>, <<"2.0">> }

\* Replies to GET <version>/boards.txt: the file the server holds under
\* that version (an empty body for any other version text), or a failure.
BoardsReplies(version) == {HttpOk(BoardsText(version)), HttpFail}

\* Firmware payloads and hashlib.sha256(payload).hexdigest(), which is
\* lower-case hexadecimal.
Payloads == {"fwA", "fwB"}

Sha256Hex(payload) ==
    CASE payload = "fwA" -> <<"a", "1">>
      [] payload = "fwB" -> <<"b", "2">>

FirmwareReplies ==
    {[ok |-> TRUE, content |-> p] : p \in Payloads}
        \cup {[ok |-> FALSE, content |-> ""]}

\* Bodies of hashes.sha256.txt.
ManifestTexts ==
    { <<"a", "1", SP, SP, "firmware.bin", LF>>,
      <<"A", "1", SP, "./firmware.bin">>,
      <<"b", "2", SP, "other.bin", LF, "a", "1", SP, "firmware.bin", LF>>,
      <<"B", "2", SP, "firmware.bin", LF, "a", "1", SP, "./firmware.bin">>,
      <<"a", "1", LF, "firmware.bin", LF>>,
      <<"a", "1", SP, "my", SP, SP, "firmware.bin", LF>>,
      <<>> }

ManifestReplies == {HttpOk(t) : t \in ManifestTexts} \cup {HttpFail}

\* Post-flash command lists a run can be configured with.
CommandLists ==
    { <<>>, << <<"cmd1">>, <<"cmd2">> >> }

\* Where the serial connection fails during the post-flash commands: not at
\* all, when it is opened, when the buffers are reset, at the write, flush
\* or read of command number `at`, or when it is closed.
SerialFaults(cmds) ==
    {[op |-> "none", at |-> 0], [op |-> "open", at |-> 0],
     [op |-> "reset", at |-> 0], [op |-> "close", at |-> 0]}
        \cup {[op |-> o, at |-> k] : o \in {"write", "flush", "read"},
                                     k \in 1..Len(cmds)}

\* How one call of esptool.main ends: it returns, or it raises
\* SystemExit(0), SystemExit(code # 0), esptool.util.FatalError, or another
\* exception (a serial.SerialException for instance).
ToolOutcomes == {"return", "exit0", "exit_nonzero", "fatal", "other_exception"}

\* Result of serial.tools.list_ports.comports(): the attached ports, or an
\* exception.
EnumOk(ports) == [ok |-> TRUE, ports |-> ports]
EnumFail == [ok |-> FALSE, ports |-> {}]

\* ------------------------------------------------------------------------
\* AutoFlasher's methods, as functions of the state they read and of what
\* the outside world returns to them
\* ------------------------------------------------------------------------

\* fetch_version: (cache, reply) -> returned value, new cache, number of
\* HTTP requests issued, whether it raised.
FetchVersion(cache, reply) ==
    IF Truthy(cache)
    THEN [ret |-> cache.val, cache |-> cache, requests |-> 0, raised |-> FALSE]
    ELSE IF ~reply.ok
    THEN [ret |-> <<>>, cache |-> cache, requests |-> 1, raised |-> TRUE]
    ELSE [ret |-> Strip(reply.text), cache |-> Some(Strip(reply.text)),
          requests |-> 1, raised |-> FALSE]

\* [line.strip() for line in text.strip().split("\n")]
BoardLines(text) ==
    LET lines == SplitLines(Strip(text))
    IN  [i \in DOMAIN lines |-> Strip(lines[i])]

\* fetch_boards: as fetch_version; `reply` is the reply to the request for
\* the boards file of the version asked for.
FetchBoards(cache, reply) ==
    IF Truthy(cache)
    THEN [ret |-> cache.val, cache |-> cache, requests |-> 0, raised |-> FALSE]
    ELSE IF ~reply.ok
    THEN [ret |-> <<>>, cache |-> cache, requests |-> 1, raised |-> TRUE]
    ELSE [ret |-> BoardLines(reply.text), cache |-> Some(BoardLines(reply.text)),
          requests |-> 1, raised |-> FALSE]

\* The line fetch_boards_for_help returns when it could not fetch the list.
UnableToFetch ==
    <<"(Unable", SP, "to", SP, "fetch", SP, "boards", SP, "list", SP, "-", SP,
      "check", SP, "network", SP, "connection)">>

\* fetch_boards_for_help without its try/except: a failed request raises.
FetchBoardsForHelpNoCatch(vreply, breply) ==
    IF vreply.ok /\ breply.ok
    THEN [ret |-> BoardLines(breply.text), raised |-> FALSE]
    ELSE [ret |-> <<>>, raised |-> TRUE]

\* cli.fetch_boards_for_help: the version file of the channel is requested,
\* then the boards file of the version it names; `vreply` and `breply` are
\* the replies.  Any exception is caught and answered by the placeholder.
FetchBoardsForHelp(vreply, breply) ==
    IF vreply.ok /\ breply.ok
    THEN [ret |-> BoardLines(breply.text), raised |-> FALSE]
    ELSE [ret |-> <<UnableToFetch>>, raised |-> FALSE]

\* `self.board not in boards` of run, negated.
BoardInList(b, boards) == \E i \in DOMAIN boards : boards[i] = b

\* The file names, were only the plain one accepted.
FirmwareNamesPlain == { <<"firmware.bin">> }

FirmwareNames == { <<"firmware.bin">>, <<"./firmware.bin">> }

\* The loop over the lines of the hash file: the digest of the first line
\* with at least two words whose file name is firmware.bin, or None.
RECURSIVE ScanHashLines(_)
ScanHashLines(lines) ==
    IF lines = <<>> THEN None
    ELSE LET parts == SplitWords(Head(lines))
         IN  IF Len(parts) >= 2
                /\ Strip(JoinSpace(Tail(parts))) \in FirmwareNames
             THEN Some(Strip(parts[1]))
             ELSE ScanHashLines(Tail(lines))

ParseHashFile(hash_text) == ScanHashLines(SplitLines(Strip(hash_text)))

HashMatchesExact(calculated_hash, expected_hash) ==
    calculated_hash = expected_hash

HashMatchesAlways(calculated_hash, expected_hash) == TRUE

\* The comparison of download_firmware: calculated_hash == expected.lower()
HashMatches(calculated_hash, expected_hash) ==
    calculated_hash = Lower(expected_hash)

NoMessage == [kind |-> "", expected |-> <<>>, got |-> <<>>]

\* download_firmware: the two fetches are joined (firmware first, then the
\* hash file), the hash file is parsed and the digest compared.
DownloadFirmware(fw, hash) ==
    IF ~fw.ok \/ ~hash.ok
    THEN [ok |-> FALSE, data |-> "", exc |-> "HTTPError", msg |-> NoMessage]
    ELSE LET expected_hash == ParseHashFile(hash.text)
             calculated_hash == Lower(Sha256Hex(fw.content))
         IN  IF ~Truthy(expected_hash)
             THEN [ok |-> FALSE, data |-> "", exc |-> "ValueError",
                   msg |-> [kind |-> "Could not find hash for firmware.bin",
                            expected |-> <<>>, got |-> <<>>]]
             ELSE IF ~HashMatches(calculated_hash, expected_hash.val)
             THEN [ok |-> FALSE, data |-> "", exc |-> "ValueError",
                   msg |-> [kind |-> "Hash mismatch",
                            expected |-> expected_hash.val,
                            got |-> calculated_hash]]
             ELSE [ok |-> TRUE, data |-> fw.content, exc |-> "", msg |-> NoMessage]

\* (cmd + "\n").encode("utf-8")
CommandLine(cmd) == cmd \o <<LF>>

\* execute_post_flash_commands under a serial fault: how often the
\* connection was opened and closed, the arguments of the ser.write calls
\* in order, and whether an exception left the method.
ExecutePostFlashNoCatch(cmds, fault) ==
    LET sent == CASE fault.op \in {"open", "reset"} -> 0
                  [] fault.op \in {"write", "flush", "read"} -> fault.at
                  [] OTHER -> Len(cmds)
    IN  [opened |-> IF fault.op = "open" THEN 0 ELSE 1,
         writes |-> [i \in 1..sent |-> CommandLine(cmds[i])],
         closed |-> IF fault.op \in {"none", "close"} THEN 1 ELSE 0,
         raised |-> fault.op # "none"]

ExecutePostFlashCommands(cmds, fault) ==
    LET sent == CASE fault.op \in {"open", "reset"} -> 0
                  [] fault.op \in {"write", "flush", "read"} -> fault.at
                  [] OTHER -> Len(cmds)
    IN  [opened |-> IF fault.op = "open" THEN 0 ELSE 1,
         writes |-> [i \in 1..sent |-> CommandLine(cmds[i])],
         closed |-> IF fault.op \in {"none", "close"} THEN 1 ELSE 0,
         raised |-> FALSE]

NoPorts == [some |-> FALSE, val |-> {}]

DetectNewPortKeepKnown(known, enum) ==
    IF ~enum.ok THEN [ret |-> NoPorts, known |-> known]
    ELSE IF enum.ports \ known # {}
    THEN [ret |-> [some |-> TRUE, val |-> enum.ports \ known], known |-> known]
    ELSE [ret |-> NoPorts, known |-> enum.ports]

\* detect_new_port, were the known set only to grow.
DetectNewPortNeverForgets(known, enum) ==
    IF ~enum.ok THEN [ret |-> NoPorts, known |-> known]
    ELSE IF enum.ports \ known # {}
    THEN [ret |-> [some |-> TRUE, val |-> enum.ports \ known],
          known |-> known \cup enum.ports]
    ELSE [ret |-> NoPorts, known |-> known \cup enum.ports]

\* detect_new_port, were a failed enumeration to empty the known set.
DetectNewPortForgetOnFailure(known, enum) ==
    IF ~enum.ok THEN [ret |-> NoPorts, known |-> {}]
    ELSE IF enum.ports \ known # {}
    THEN [ret |-> [some |-> TRUE, val |-> enum.ports \ known],
          known |-> enum.ports]
    ELSE [ret |-> NoPorts, known |-> enum.ports]

\* detect_new_port, were it to remember only the new ports of a detection.
DetectNewPortKnownOnlyNew(known, enum) ==
    IF ~enum.ok THEN [ret |-> NoPorts, known |-> known]
    ELSE IF enum.ports \ known # {}
    THEN [ret |-> [some |-> TRUE, val |-> enum.ports \ known],
          known |-> enum.ports \ known]
    ELSE [ret |-> NoPorts, known |-> enum.ports]

\* detect_new_port: the ports returned (None when there are none or the
\* enumeration failed) and the new known set.
DetectNewPort(known, enum) ==
    IF ~enum.ok THEN [ret |-> NoPorts, known |-> known]
    ELSE IF enum.ports \ known # {}
    THEN [ret |-> [some |-> TRUE, val |-> enum.ports \ known],
          known |-> enum.ports]
    ELSE [ret |-> NoPorts, known |-> enum.ports]

\* ------------------------------------------------------------------------
\* State
\* ------------------------------------------------------------------------

VARIABLES
    \* The configuration AutoFlasher is constructed with, and whether the
    \* CLI's SIGINT handler (sys.exit(0)) is installed.
    board, erase_flash, auto_flash, post_flash_commands, cli_handler,
    \* The value of a `--version` option on the command line of cli.main,
    \* if there is one.
    argv_version,
    \* Fields of AutoFlasher.
    known_ports, state, version_cache, boards_cache,
    \* Position of run / flash_device and their locals.
    pc, version, new_ports, port, poll_interval, consecutive_checks,
    temp_firmware, firmware_data,
    \* The outside world: serial ports attached, temporary files on disk,
    \* and how many times a device was plugged in so far.
    attached, files, plugs,
    \* What has been observed of the run: the kinds of outside operation it
    \* performed (io); of the session in progress or just ended, whether the
    \* digest of its download agreed with the manifest (verified), its
    \* esptool.main calls in order (tool_log) and what its post-flash
    \* commands did (post_flash); the ports of the initial snapshot present
    \* in every enumeration since (initial_ports); the ports
    \* detect_new_port returned (reported) and those flash_device was called
    \* for (flashed); the ports whose flash_device call has been entered and
    \* has neither returned nor raised yet (active).
    io, verified, tool_log, post_flash, initial_ports, reported, flashed,
    active,
    \* The ports whose flash_device call is over and that every enumeration
    \* since has listed.
    present_since,
    \* The ports plugged in while a flash_device call for another port was
    \* in progress, still attached, with no detect_new_port call since.
    arrived,
    \* Whether the enumeration of the last detect_new_port call of run
    \* raised.
    enum_failed,
    \* ApiSpec: the last call and its result, the number of calls, and the
    \* values the first successful fetch_version / fetch_boards returned.
    ret, calls, first_version, first_boards,
    \* ApiSpec: a download_firmware call followed thread by thread: the
    \* replies its two requests get and the order in which the two worker
    \* threads have finished so far.
    dl

config == <<board, erase_flash, auto_flash, post_flash_commands, cli_handler,
            argv_version>>
fields == <<known_ports, state, version_cache, boards_cache>>
locals == <<pc, version, new_ports, port, poll_interval, consecutive_checks,
            temp_firmware, firmware_data>>
world == <<attached, files, plugs>>
history == <<io, verified, tool_log, post_flash, initial_ports, reported,
             flashed, active, present_since, enum_failed>>
observed == <<history, arrived>>
api == <<ret, calls, first_version, first_boards, dl>>
vars == <<config, fields, locals, world, observed, api>>

\* ------------------------------------------------------------------------
\* Constants of constants.py
\* ------------------------------------------------------------------------

\* Floats are named by their Python repr; FloatAddTenth is IEEE-754 double
\* addition of 0.1 on the values the poll interval takes.
INITIAL_POLL_INTERVAL == "0.5"
MAX_POLL_INTERVAL == "1.0"
POLL_BACKOFF_THRESHOLD == 10

FloatOrder ==
    <<"0.5", "0.6", "0.7", "0.7999999999999999", "0.8999999999999999",
      "0.9999999999999999", "1.0", "1.0999999999999999", "1.1">>

FloatRank(x) == CHOOSE i \in DOMAIN FloatOrder : FloatOrder[i] = x

FloatAddTenth(x) ==
    CASE x = "0.5" -> "0.6"
      [] x = "0.6" -> "0.7"
      [] x = "0.7" -> "0.7999999999999999"
      [] x = "0.7999999999999999" -> "0.8999999999999999"
      [] x = "0.8999999999999999" -> "0.9999999999999999"
      [] x = "0.9999999999999999" -> "1.0999999999999999"
      [] x = "1.0" -> "1.1"

\* min(a, b)
FloatMin(a, b) == IF FloatRank(b) < FloatRank(a) THEN b ELSE a

\* ------------------------------------------------------------------------
\* Construction
\* ------------------------------------------------------------------------

\* Board identifiers a run is configured with (the last is --board "").
BoardNames == { <<"b1">>, <<"b3">>, <<>> }

NoPostFlash == [opened |-> 0, writes |-> <<>>, closed |-> 0, raised |-> FALSE,
                fault |-> ""]
\* No download_firmware call is being followed.
NoDownload == [fw |-> [ok |-> FALSE, content |-> ""], hash |-> HttpFail,
               order |-> <<>>, raising |-> FALSE]

NoCall == [op |-> "none"]

\* AutoFlasher.__init__, with nothing observed yet.
Constructed ==
    /\ known_ports = {}
    /\ state = "waiting"
    /\ version_cache = None
    /\ boards_cache = None
    /\ version = <<>>
    /\ new_ports = <<>>
    /\ port = ""
    /\ poll_interval = INITIAL_POLL_INTERVAL
    /\ consecutive_checks = 0
    /\ temp_firmware = 0
    /\ firmware_data = ""
    /\ files = {}
    /\ plugs = 0
    /\ io = {}
    /\ verified = FALSE
    /\ tool_log = <<>>
    /\ post_flash = NoPostFlash
    /\ initial_ports = {}
    /\ reported = {}
    /\ flashed = {}
    /\ active = {}
    /\ present_since = {}
    /\ arrived = {}
    /\ enum_failed = FALSE
    /\ ret = NoCall
    /\ calls = 0
    /\ first_version = None
    /\ first_boards = None
    /\ dl = NoDownload

\* ------------------------------------------------------------------------
\* ApiSpec: a client (a unit test) that calls the methods of one AutoFlasher
\* in any order
\* ------------------------------------------------------------------------

ApiCommandLists ==
    CommandLists \cup { << <<"cmd1">>, <<"cmd2">>, <<"cmd3">> >> }

ApiInit ==
    /\ Constructed
    /\ pc = "api"
    /\ board \in BoardNames
    /\ erase_flash = FALSE
    /\ auto_flash = TRUE
    /\ cli_handler = FALSE
    /\ argv_version = None
    /\ post_flash_commands \in ApiCommandLists
    /\ attached = {}

ApiUnchanged ==
    UNCHANGED <<config, state, locals, world, observed, dl>>

CallFetchVersion ==
    /\ pc = "api" /\ calls < MaxCalls
    /\ \E reply \in VersionReplies :
        LET r == FetchVersion(version_cache, reply)
        IN  /\ version_cache' = r.cache
            /\ ret' = [op |-> "fetch_version", out |-> r,
                       after_success |-> first_version.some,
                       first |-> first_version.val]
            /\ first_version' =
                   IF ~first_version.some /\ ~r.raised THEN Some(r.ret)
                   ELSE first_version
    /\ calls' = calls + 1
    /\ UNCHANGED <<known_ports, boards_cache, first_boards>>
    /\ ApiUnchanged

CallFetchBoards ==
    /\ pc = "api" /\ calls < MaxCalls
    /\ \E v \in KnownVersions \cup { <<>> } :
       \E reply \in BoardsReplies(v) :
        LET r == FetchBoards(boards_cache, reply)
        IN  /\ boards_cache' = r.cache
            /\ ret' = [op |-> "fetch_boards", out |-> r, requested |-> v,
                       after_success |-> first_boards.some,
                       first |-> first_boards.val]
            /\ first_boards' =
                   IF ~first_boards.some /\ ~r.raised THEN Some(r.ret)
                   ELSE first_boards
    /\ calls' = calls + 1
    /\ UNCHANGED <<known_ports, version_cache, first_version>>
    /\ ApiUnchanged

CallDownloadFirmware ==
    /\ pc = "api" /\ calls < MaxCalls
    /\ \E fw \in FirmwareReplies, hash \in ManifestReplies :
        ret' = [op |-> "download_firmware", fw |-> fw, hash |-> hash,
                out |-> DownloadFirmware(fw, hash)]
    /\ calls' = calls + 1
    /\ UNCHANGED <<fields, first_version, first_boards>>
    /\ ApiUnchanged

CallDetectNewPort ==
    /\ pc = "api" /\ calls < MaxCalls
    /\ \E enum \in {EnumOk(c) : c \in SUBSET Ports} \cup {EnumFail} :
        LET r == DetectNewPort(known_ports, enum)
        IN  /\ known_ports' = r.known
            /\ ret' = [op |-> "detect_new_port", known |-> known_ports,
                       enum |-> enum, out |-> r.ret,
                       previous |-> IF ret.op = "detect_new_port"
                                    THEN ret.enum ELSE EnumFail]
    /\ calls' = calls + 1
    /\ UNCHANGED <<state, version_cache, boards_cache, first_version,
                   first_boards>>
    /\ UNCHANGED <<config, locals, world, observed, dl>>

CallExecutePostFlashCommands ==
    /\ pc = "api" /\ calls < MaxCalls
    /\ \E fault \in SerialFaults(post_flash_commands) :
        ret' = [op |-> "execute_post_flash_commands", fault |-> fault,
                out |-> ExecutePostFlashCommands(post_flash_commands, fault)]
    /\ calls' = calls + 1
    /\ UNCHANGED <<fields, first_version, first_boards>>
    /\ ApiUnchanged

\* flash_device of the package, lines 318-323: the handler of `except
\* Exception`.  temp_firmware was initialised to None before the try, and
\* the file is removed only `if temp_firmware:`; the exception is raised
\* again.
FlashDeviceExcept(temp, exc) ==
    [state |-> "error", unlink |-> temp.some, raised |-> exc]

\* flash_device of the stand-alone script src/AutoFlash.py, lines 273-277:
\* the handler calls temp_firmware.unlink(missing_ok=True) unguarded, and
\* temp_firmware is a local that is assigned only after the download: when
\* it is unbound the handler itself raises UnboundLocalError.
LegacyFlashDeviceExcept(temp, exc) ==
    IF temp.some
    THEN [state |-> "error", unlink |-> TRUE, raised |-> exc]
    ELSE [state |-> "error", unlink |-> FALSE, raised |-> "UnboundLocalError"]

\* The two copies of flash_device in the repository.
Copies == {"package", "legacy"}

\* flash_device called for a session whose download_firmware raises (HTTP
\* failure, missing digest or hash mismatch), in either copy: the temporary
\* file has not been created when the handler runs.
CallFlashDeviceEarlyFailure ==
    /\ pc = "api" /\ calls < MaxCalls
    /\ \E copy \in Copies, fw \in FirmwareReplies, hash \in ManifestReplies :
        LET d == DownloadFirmware(fw, hash)
            h == IF copy = "package" THEN FlashDeviceExcept(None, d.exc)
                 ELSE LegacyFlashDeviceExcept(None, d.exc)
        IN  /\ ~d.ok
            /\ state' = h.state
            /\ ret' = [op |-> "flash_device", copy |-> copy,
                       failure |-> d.msg.kind, original |-> d.exc, out |-> h]
    /\ calls' = calls + 1
    /\ UNCHANGED <<known_ports, version_cache, boards_cache, first_version,
                   first_boards, dl>>
    /\ UNCHANGED <<config, locals, world, observed>>

\* Future.result() returning at once, whether the thread has finished or not.
FutureDoneNoWait(order, who) == TRUE

\* download_firmware, lines 154-155: Future.result() blocks until the
\* worker thread `who` has finished.
FutureDone(order, who) == \E i \in DOMAIN order : order[i] = who

\* What is left alone while a download_firmware call is followed.
DlUnchanged ==
    UNCHANGED <<config, fields, version, new_ports, port, poll_interval,
                consecutive_checks, temp_firmware, firmware_data, world,
                observed, first_version, first_boards>>

\* download_firmware, lines 150-152: both fetches are submitted to the
\* pool; the main thread goes on to firmware_future.result().
DlSubmit ==
    /\ pc = "api" /\ calls < MaxCalls
    /\ \E fw \in FirmwareReplies, hash \in ManifestReplies :
        dl' = [fw |-> fw, hash |-> hash, order |-> <<>>, raising |-> FALSE]
    /\ ret' = NoCall
    /\ pc' = "dl_result_fw"
    /\ UNCHANGED calls
    /\ DlUnchanged

\* download_firmware, lines 139-147: a worker thread finishes its fetch
\* (with a result or with an exception stored in its future).
DlWorkerDone ==
    /\ pc \in {"dl_result_fw", "dl_result_hash", "dl_exit"}
    /\ \E who \in {"fw", "hash"} :
        /\ ~FutureDone(dl.order, who)
        /\ dl' = [dl EXCEPT !.order = Append(@, who)]
    /\ UNCHANGED <<pc, ret, calls>>
    /\ DlUnchanged

\* download_firmware, line 154: firmware_future.result().
DlResultFirmware ==
    /\ pc = "dl_result_fw"
    /\ FutureDone(dl.order, "fw")
    /\ IF dl.fw.ok
       THEN pc' = "dl_result_hash" /\ UNCHANGED dl
       ELSE pc' = "dl_exit" /\ dl' = [dl EXCEPT !.raising = TRUE]
    /\ UNCHANGED <<ret, calls>>
    /\ DlUnchanged

\* download_firmware, line 155: hash_future.result().
DlResultHash ==
    /\ pc = "dl_result_hash"
    /\ FutureDone(dl.order, "hash")
    /\ pc' = "dl_exit"
    /\ dl' = [dl EXCEPT !.raising = ~dl.hash.ok]
    /\ UNCHANGED <<ret, calls>>
    /\ DlUnchanged

\* download_firmware, line 150: leaving the `with` block shuts the pool
\* down with wait=True, so both workers have finished; a pending exception
\* then leaves download_firmware, otherwise it goes on to the parsing.
DlExitPool ==
    /\ pc = "dl_exit"
    /\ FutureDone(dl.order, "fw") /\ FutureDone(dl.order, "hash")
    /\ IF dl.raising
       THEN /\ ret' = [op |-> "download_firmware_threads", fw |-> dl.fw,
                       hash |-> dl.hash, order |-> dl.order,
                       out |-> [ok |-> FALSE, data |-> "",
                                exc |-> "HTTPError", msg |-> NoMessage]]
            /\ calls' = calls + 1
            /\ dl' = NoDownload
            /\ pc' = "api"
       ELSE /\ pc' = "dl_parse"
            /\ UNCHANGED <<ret, calls, dl>>
    /\ DlUnchanged

\* download_firmware, lines 157-178: the parsing of the hash file and the
\* comparison of the digests, on the results of the two futures.
DlParse ==
    /\ pc = "dl_parse"
    /\ ret' = [op |-> "download_firmware_threads", fw |-> dl.fw,
               hash |-> dl.hash, order |-> dl.order,
               out |-> DownloadFirmware(dl.fw, dl.hash)]
    /\ calls' = calls + 1
    /\ dl' = NoDownload
    /\ pc' = "api"
    /\ DlUnchanged

\* cli.fetch_boards_for_help(channel), called as a function.
CallFetchBoardsForHelp ==
    /\ pc = "api" /\ calls < MaxCalls
    /\ \E vreply \in VersionReplies :
       \E breply \in BoardsReplies(Strip(vreply.text)) :
        ret' = [op |-> "fetch_boards_for_help", vreply |-> vreply,
                breply |-> breply, out |-> FetchBoardsForHelp(vreply, breply)]
    /\ calls' = calls + 1
    /\ UNCHANGED <<fields, first_version, first_boards>>
    /\ ApiUnchanged

ApiNext ==
    \/ CallFetchVersion
    \/ CallFetchBoards
    \/ CallDownloadFirmware
    \/ CallDetectNewPort
    \/ CallExecutePostFlashCommands
    \/ CallFetchBoardsForHelp
    \/ CallFlashDeviceEarlyFailure
    \/ DlSubmit
    \/ DlWorkerDone
    \/ DlResultFirmware
    \/ DlResultHash
    \/ DlExitPool
    \/ DlParse

ApiSpec == ApiInit /\ [][ApiNext]_vars

\* ------------------------------------------------------------------------
\* Spec: one call of AutoFlasher.run, with devices plugged in and out and
\* interrupt signals arriving while it runs
\* ------------------------------------------------------------------------

\* The orders in which list(new_ports) can hold the members of a set.
Orders(S) ==
    {q \in [1..Cardinality(S) -> S] : \A i, j \in DOMAIN q : q[i] = q[j] => i = j}

\* The claim's reading of "the digest of the payload equals the manifest's
\* digest, compared case-insensitively".
CasePairs == { {"a", "A"}, {"b", "B"}, {"c", "C"} }

SameHexIgnoringCase(x, y) ==
    /\ Len(x) = Len(y)
    /\ \A i \in DOMAIN x : x[i] = y[i] \/ {x[i], y[i]} \in CasePairs

DigestAgrees(fw, hash) ==
    /\ fw.ok /\ hash.ok
    /\ ParseHashFile(hash.text).some
    /\ SameHexIgnoringCase(ParseHashFile(hash.text).val, Sha256Hex(fw.content))

\* Command lines of cli.main: with or without a `--version` option.
ArgvVersions == {None, Some(<<"2.0">>)}

\* cli.py, lines 35-76 and 112: parser.parse_args().  The parser defines
\* --channel/-c, --board/-b, --erase/-e, --no-auto/-n and --post-flash/-p
\* only, so argparse rejects a command line that holds `--version` (or
\* `-V`) with "unrecognized arguments" and SystemExit(2).
ParseArgs(v) == [ok |-> ~v.some]

\* The program is started either through cli.main (which installs its
\* SIGINT handler and parses the command line) or by a caller that
\* constructs AutoFlasher and calls run.
Init ==
    /\ Constructed
    /\ board \in BoardNames
    /\ erase_flash \in BOOLEAN
    /\ auto_flash \in BOOLEAN
    /\ cli_handler \in BOOLEAN
    /\ IF cli_handler
       THEN pc = "main" /\ argv_version \in ArgvVersions
       ELSE pc = "start" /\ argv_version = None
    /\ post_flash_commands \in CommandLists
    /\ attached \in SUBSET Ports

Ended == pc \in {"returned", "exited", "usage_error"}

\* cli.main, lines 93-122: the handler is installed, the command line is
\* parsed, AutoFlasher is constructed from the options and run is called.
Main ==
    /\ pc = "main"
    /\ pc' = IF ParseArgs(argv_version).ok THEN "start" ELSE "usage_error"
    /\ UNCHANGED <<config, fields, version, new_ports, port, poll_interval,
                   consecutive_checks, temp_firmware, firmware_data, world,
                   observed, api>>

InSession ==
    pc \in {"download", "tempfile", "erase", "write", "post_flash", "finish"}

\* RunFetchVersion, were run to go on after a failed fetch_version.
RunFetchVersionContinue ==
    /\ pc = "start"
    /\ \E reply \in VersionReplies :
        LET r == FetchVersion(version_cache, reply)
        IN  /\ version_cache' = r.cache
            /\ version' = r.ret
            /\ state' = "waiting"
            /\ pc' = "fetch_boards"
    /\ UNCHANGED <<config, known_ports, boards_cache, new_ports, port,
                   poll_interval, consecutive_checks, temp_firmware,
                   firmware_data, world, observed, api>>

\* run, lines 344-358: set_state("waiting") and fetch_version.
RunFetchVersion ==
    /\ pc = "start"
    /\ \E reply \in VersionReplies :
        LET r == FetchVersion(version_cache, reply)
        IN  /\ version_cache' = r.cache
            /\ version' = r.ret
            /\ IF r.raised
               THEN state' = "error" /\ pc' = "returned"
               ELSE state' = "waiting" /\ pc' = "fetch_boards"
    /\ UNCHANGED <<config, known_ports, boards_cache, new_ports, port,
                   poll_interval, consecutive_checks, temp_firmware,
                   firmware_data, world, observed, api>>

RunValidateAlways(b, boards) == TRUE

\* The early validation of run.
RunValidate(b, boards) == BoardInList(b, boards)

\* run, lines 358-370: fetch_boards and the early validation.
RunFetchBoards ==
    /\ pc = "fetch_boards"
    /\ \E reply \in BoardsReplies(version) :
        LET r == FetchBoards(boards_cache, reply)
        IN  /\ boards_cache' = r.cache
            /\ IF r.raised \/ ~RunValidate(board, r.ret)
               THEN state' = "error" /\ pc' = "returned"
               ELSE state' = state /\ pc' = "snapshot"
    /\ UNCHANGED <<config, known_ports, version_cache, version, new_ports,
                   port, poll_interval, consecutive_checks, temp_firmware,
                   firmware_data, world, observed, api>>

InitialKnownEmpty(enumerated) == {}

\* The initial value of known_ports.
InitialKnown(enumerated) == enumerated

\* run, lines 372-382: the initial snapshot, set_state("waiting") and the
\* start of the poll loop.  comports() is outside every try block: an
\* exception it raises leaves run.
RunSnapshot ==
    /\ pc = "snapshot"
    /\ io' = io \cup {"enumerate"}
    /\ \/ /\ known_ports' = InitialKnown(attached)
          /\ initial_ports' = attached
          /\ state' = "waiting"
          /\ poll_interval' = INITIAL_POLL_INTERVAL
          /\ consecutive_checks' = 0
          /\ pc' = "poll"
       \/ /\ pc' = "exited"
          /\ UNCHANGED <<known_ports, initial_ports, state, poll_interval,
                         consecutive_checks>>
    /\ UNCHANGED <<config, version_cache, boards_cache, version, new_ports,
                   port, temp_firmware, firmware_data, world, verified,
                   tool_log, post_flash, reported, flashed, active,
                   present_since, api>>
    /\ UNCHANGED <<enum_failed, arrived>>

\* run, lines 385-387 and 408-412: one detect_new_port call and, when it
\* reports nothing, the backoff.
Poll ==
    /\ pc = "poll"
    /\ io' = io \cup {"enumerate"}
    /\ \E enum \in {EnumOk(attached), EnumFail} :
        LET r == DetectNewPort(known_ports, enum)
        IN  /\ known_ports' = r.known
            /\ enum_failed' = ~enum.ok
            /\ arrived' = {}
            /\ initial_ports' = IF enum.ok THEN initial_ports \cap enum.ports
                                ELSE initial_ports
            /\ reported' = reported \cup r.ret.val
            /\ present_since' = IF enum.ok THEN present_since \cap enum.ports
                                ELSE present_since
            /\ IF r.ret.some
               THEN /\ new_ports' \in Orders(r.ret.val)
                    /\ pc' = "for"
                    /\ UNCHANGED <<poll_interval, consecutive_checks>>
               ELSE /\ consecutive_checks < MaxChecks
                    /\ consecutive_checks' = consecutive_checks + 1
                    /\ poll_interval' =
                           IF consecutive_checks' > POLL_BACKOFF_THRESHOLD
                           THEN FloatMin(MAX_POLL_INTERVAL,
                                         FloatAddTenth(poll_interval))
                           ELSE poll_interval
                    /\ pc' = "sleep"
                    /\ UNCHANGED new_ports
    /\ UNCHANGED <<config, state, version_cache, boards_cache, version, port,
                   temp_firmware, firmware_data, world, verified, tool_log,
                   post_flash, flashed, active, api>>

\* The branch on auto_flash, were a session started whatever its value.
AfterDetectAlwaysFlash(auto) == "init_delay"

\* run, lines 395-407: `if self.auto_flash:` starts a session for the port
\* (after the initialisation delay), `else:` only logs and goes on.
AfterDetect(auto) == IF auto THEN "init_delay" ELSE "for"

\* ForNewPort without the reset of the backoff.
ForNewPortNoReset ==
    /\ pc = "for"
    /\ IF new_ports = <<>>
       THEN /\ pc' = "sleep"
            /\ UNCHANGED <<new_ports, port>>
       ELSE /\ port' = Head(new_ports)
            /\ new_ports' = Tail(new_ports)
            /\ pc' = AfterDetect(auto_flash)
    /\ UNCHANGED <<config, fields, version, temp_firmware, firmware_data,
                   poll_interval, consecutive_checks, world, observed, api>>

\* run, lines 389-407: the head of `for new_port in new_ports`, the reset of
\* the backoff, and the branch on auto_flash.
ForNewPort ==
    /\ pc = "for"
    /\ IF new_ports = <<>>
       THEN /\ pc' = "sleep"
            /\ UNCHANGED <<new_ports, port, poll_interval, consecutive_checks>>
       ELSE /\ port' = Head(new_ports)
            /\ new_ports' = Tail(new_ports)
            /\ poll_interval' = INITIAL_POLL_INTERVAL
            /\ consecutive_checks' = 0
            /\ pc' = AfterDetect(auto_flash)
    /\ UNCHANGED <<config, fields, version, temp_firmware, firmware_data,
                   world, observed, api>>

\* run, line 414: time.sleep(poll_interval).
Sleep ==
    /\ pc = "sleep"
    /\ pc' = "poll"
    /\ UNCHANGED <<config, fields, version, new_ports, port, poll_interval,
                   consecutive_checks, temp_firmware, firmware_data, world,
                   observed, api>>

\* tempfile.NamedTemporaryFile picks a name no existing file has.
FreshFile == CHOOSE n \in 1..(Cardinality(files) + 1) : n \notin files

\* The calls in progress, were a call of flash_device to last beyond its
\* return.
SessionEndedKept(calls_, p) == calls_

\* flash_device, lines 316 and 323: the call for port p is over when it
\* returns or raises; run calls it synchronously (line 398).
SessionEnded(calls_, p) == calls_ \ {p}

\* flash_device, lines 318-323: the handler of `except Exception`.  The
\* exception is raised again and reaches the poll loop of run.
FlashFail(temp) ==
    /\ state' = "error"
    /\ active' = SessionEnded(active, port)
    /\ present_since' = present_since \cup active
    /\ files' = IF temp # 0 THEN files \ {temp} ELSE files
    /\ pc' = "flash_raised"

\* run, lines 397-398, and flash_device, lines 227-234: the initialization
\* delay, the call of flash_device and set_state("flashing").
FlashStart ==
    /\ pc = "init_delay"
    /\ temp_firmware' = 0
    /\ firmware_data' = ""
    /\ state' = "flashing"
    /\ flashed' = flashed \cup {port}
    /\ active' = active \cup {port}
    /\ UNCHANGED present_since
    /\ verified' = FALSE
    /\ tool_log' = <<>>
    /\ post_flash' = NoPostFlash
    /\ pc' = "download"
    /\ UNCHANGED <<config, known_ports, version_cache, boards_cache, version,
                   new_ports, port, poll_interval, consecutive_checks, world,
                   io, initial_ports, reported, api>>
    /\ UNCHANGED <<enum_failed, arrived>>

\* flash_device, line 237: download_firmware.
Download ==
    /\ pc = "download"
    /\ io' = io \cup {"download"}
    /\ \E fw \in FirmwareReplies, hash \in ManifestReplies :
        LET r == DownloadFirmware(fw, hash)
        IN  /\ verified' = DigestAgrees(fw, hash)
            /\ IF r.ok
               THEN /\ firmware_data' = r.data
                    /\ pc' = "tempfile"
                    /\ UNCHANGED <<state, files, active, present_since>>
               ELSE /\ FlashFail(temp_firmware)
                    /\ UNCHANGED firmware_data
    /\ UNCHANGED <<config, known_ports, version_cache, boards_cache, version,
                   new_ports, port, poll_interval, consecutive_checks,
                   temp_firmware, attached, plugs, tool_log, post_flash,
                   initial_ports, reported, flashed, api>>
    /\ UNCHANGED <<enum_failed, arrived>>

\* flash_device, lines 240-249: the temporary file is created and written.
\* Creating it can fail (temp_firmware is still None then), and so can
\* writing to it once it exists.
SaveTemp ==
    /\ pc = "tempfile"
    /\ \/ /\ temp_firmware' = FreshFile
          /\ files' = files \cup {FreshFile}
          /\ io' = io \cup {"tempfile"}
          /\ pc' = IF erase_flash THEN "erase" ELSE "write"
          /\ UNCHANGED <<state, active, present_since>>
       \/ /\ FlashFail(0)
          /\ UNCHANGED <<temp_firmware, io>>
       \/ /\ temp_firmware' = FreshFile
          /\ io' = io \cup {"tempfile"}
          /\ FlashFail(0)
    /\ UNCHANGED <<config, known_ports, version_cache, boards_cache, version,
                   new_ports, port, poll_interval, consecutive_checks,
                   firmware_data, attached, plugs, verified, tool_log,
                   post_flash, initial_ports, reported, flashed, api>>
    /\ UNCHANGED <<enum_failed, arrived>>

\* The test of the tool's outcome, were every outcome taken for a success.
ToolSucceededAny(outcome) == TRUE

\* `except (SystemExit, FatalError)`: only a return and SystemExit(0) let
\* flash_device go on.
ToolSucceeded(outcome) == outcome \in {"return", "exit0"}

\* flash_device, lines 262-280: esptool.main(erase_args).
Erase ==
    /\ pc = "erase"
    /\ io' = io \cup {"tool"}
    /\ \E outcome \in ToolOutcomes :
        /\ tool_log' = Append(tool_log, [op |-> "erase-flash", outcome |-> outcome])
        /\ IF ToolSucceeded(outcome)
           THEN /\ pc' = "write"
                /\ UNCHANGED <<state, files, active, present_since>>
           ELSE FlashFail(temp_firmware)
    /\ UNCHANGED <<config, known_ports, version_cache, boards_cache, version,
                   new_ports, port, poll_interval, consecutive_checks,
                   temp_firmware, firmware_data, attached, plugs, verified,
                   post_flash, initial_ports, reported, flashed, api>>
    /\ UNCHANGED <<enum_failed, arrived>>

\* flash_device, lines 295-306: esptool.main(args), the write-flash call.
Write ==
    /\ pc = "write"
    /\ io' = io \cup {"tool"}
    /\ \E outcome \in ToolOutcomes :
        /\ tool_log' = Append(tool_log, [op |-> "write-flash", outcome |-> outcome])
        /\ IF ToolSucceeded(outcome)
           THEN /\ pc' = IF post_flash_commands # <<>> THEN "post_flash"
                         ELSE "finish"
                /\ UNCHANGED <<state, files, active, present_since>>
           ELSE FlashFail(temp_firmware)
    /\ UNCHANGED <<config, known_ports, version_cache, boards_cache, version,
                   new_ports, port, poll_interval, consecutive_checks,
                   temp_firmware, firmware_data, attached, plugs, verified,
                   post_flash, initial_ports, reported, flashed, api>>
    /\ UNCHANGED <<enum_failed, arrived>>

\* flash_device, line 307: execute_post_flash_commands(port).
PostFlash ==
    /\ pc = "post_flash"
    /\ io' = io \cup {"serial"}
    /\ \E fault \in SerialFaults(post_flash_commands) :
        LET r == ExecutePostFlashCommands(post_flash_commands, fault)
        IN  /\ post_flash' = [opened |-> r.opened, writes |-> r.writes,
                              closed |-> r.closed, raised |-> r.raised,
                              fault |-> fault.op]
            /\ IF r.raised
               THEN FlashFail(temp_firmware)
               ELSE /\ pc' = "finish"
                    /\ UNCHANGED <<state, files, active, present_since>>
    /\ UNCHANGED <<config, known_ports, version_cache, boards_cache, version,
                   new_ports, port, poll_interval, consecutive_checks,
                   temp_firmware, firmware_data, attached, plugs, verified,
                   tool_log, initial_ports, reported, flashed, api>>
    /\ UNCHANGED <<enum_failed, arrived>>

\* flash_device, lines 309-316: set_state("done"), the success banner and
\* the removal of the temporary file; flash_device returns.
Finish ==
    /\ pc = "finish"
    /\ state' = "done"
    /\ files' = files \ {temp_firmware}
    /\ active' = SessionEnded(active, port)
    /\ present_since' = present_since \cup active
    /\ pc' = "after_flash"
    /\ UNCHANGED <<config, known_ports, version_cache, boards_cache, version,
                   new_ports, port, poll_interval, consecutive_checks,
                   temp_firmware, firmware_data, attached, plugs, io,
                   verified, tool_log, post_flash, initial_ports, reported,
                   flashed, api>>
    /\ UNCHANGED <<enum_failed, arrived>>

\* The status after flash_device returned, were run not to reset it.
StateAfterFlashKept(auto, s) == s

\* run, lines 400-402: `if self.auto_flash: self.set_state("waiting")`.
StateAfterFlash(auto, s) == IF auto THEN "waiting" ELSE s

\* run, lines 400-405: back in the loop after flash_device returned; what
\* was observed of the session is forgotten.
AfterFlash ==
    /\ pc = "after_flash"
    /\ state' = StateAfterFlash(auto_flash, state)
    /\ temp_firmware' = 0
    /\ firmware_data' = ""
    /\ verified' = FALSE
    /\ tool_log' = <<>>
    /\ post_flash' = NoPostFlash
    /\ pc' = "for"
    /\ UNCHANGED <<config, known_ports, version_cache, boards_cache, version,
                   new_ports, port, poll_interval, consecutive_checks, world,
                   io, initial_ports, reported, flashed, active,
                   present_since, api>>
    /\ UNCHANGED <<enum_failed, arrived>>

\* LoopExcept, were the loop to go on with the next port after a failure.
LoopExceptContinue ==
    /\ pc = "flash_raised"
    /\ state' = "waiting"
    /\ pc' = "for"
    /\ UNCHANGED <<config, known_ports, version_cache, boards_cache, version,
                   new_ports, port, poll_interval, consecutive_checks,
                   temp_firmware, firmware_data, world, observed, api>>

\* run, lines 420-425: `except Exception` around the poll loop; run returns.
LoopExcept ==
    /\ pc = "flash_raised"
    /\ state' = "error"
    /\ pc' = "returned"
    /\ UNCHANGED <<config, known_ports, version_cache, boards_cache, version,
                   new_ports, port, poll_interval, consecutive_checks,
                   temp_firmware, firmware_data, world, observed, api>>

\* Interrupt with `except KeyboardInterrupt` taken for a failure of the
\* loop: the status becomes error when run returns.
InterruptAsError ==
    /\ pc \notin {"flash_raised", "returned", "exited", "usage_error", "api"}
    /\ \/ /\ cli_handler
          /\ pc \in {"erase", "write"}
          /\ tool_log' = Append(tool_log,
                [op |-> IF pc = "erase" THEN "erase-flash" ELSE "write-flash",
                 outcome |-> "sigint_exit0"])
          /\ io' = io \cup {"tool"}
          /\ pc' = IF pc = "erase" THEN "write"
                   ELSE IF post_flash_commands # <<>> THEN "post_flash"
                   ELSE "finish"
          /\ state' = state
          /\ active' = active
          /\ present_since' = present_since
       \/ /\ pc' = IF cli_handler \/ pc \in {"start", "fetch_boards", "snapshot"}
                   THEN "exited" ELSE "returned"
          /\ state' = IF pc' = "returned" THEN "error" ELSE state
          /\ active' = SessionEnded(active, port)
          /\ present_since' = present_since \cup active
          /\ UNCHANGED <<tool_log, io>>
    /\ UNCHANGED <<config, known_ports, version_cache, boards_cache, version,
                   new_ports, port, poll_interval, consecutive_checks,
                   temp_firmware, firmware_data, world, verified, post_flash,
                   initial_ports, reported, flashed, api>>
    /\ UNCHANGED <<enum_failed, arrived>>

\* SIGINT.  With the handler of cli.main installed it raises SystemExit(0)
\* where the program is; without it Python raises KeyboardInterrupt there.
\* Neither is an Exception: only `except (SystemExit, FatalError)` around
\* the two esptool.main calls catches the first (and takes code 0 for a
\* success), and only `except KeyboardInterrupt` around the poll loop
\* catches the second.  At "erase" and "write" the signal arrives either
\* inside esptool.main (first disjunct, handler installed) or in the lines
\* of flash_device before the call.  (No signal is taken between the raise
\* that ends flash_device and the handler of run that receives it.)
Interrupt ==
    /\ pc \notin {"flash_raised", "returned", "exited", "usage_error", "api"}
    /\ \/ /\ cli_handler
          /\ pc \in {"erase", "write"}
          /\ tool_log' = Append(tool_log,
                [op |-> IF pc = "erase" THEN "erase-flash" ELSE "write-flash",
                 outcome |-> "sigint_exit0"])
          /\ io' = io \cup {"tool"}
          /\ pc' = IF pc = "erase" THEN "write"
                   ELSE IF post_flash_commands # <<>> THEN "post_flash"
                   ELSE "finish"
          /\ state' = state
          /\ active' = active
          /\ present_since' = present_since
       \/ /\ pc' = IF cli_handler \/ pc \in {"start", "fetch_boards", "snapshot"}
                   THEN "exited" ELSE "returned"
          /\ state' = state
          /\ active' = SessionEnded(active, port)
          /\ present_since' = present_since \cup active
          /\ UNCHANGED <<tool_log, io>>
    /\ UNCHANGED <<config, known_ports, version_cache, boards_cache, version,
                   new_ports, port, poll_interval, consecutive_checks,
                   temp_firmware, firmware_data, world, verified, post_flash,
                   initial_ports, reported, flashed, api>>
    /\ UNCHANGED <<enum_failed, arrived>>

\* A device is plugged in.  (What is attached before the initial snapshot is
\* chosen by Init.)
Attach ==
    /\ pc \notin {"main", "usage_error", "start", "fetch_boards", "returned",
                 "exited", "api"}
    /\ plugs < MaxPlugs
    /\ \E p \in Ports \ attached :
        /\ attached' = attached \cup {p}
        /\ arrived' = IF active # {} /\ p \notin active
                      THEN arrived \cup {p} ELSE arrived
    /\ plugs' = plugs + 1
    /\ UNCHANGED <<config, fields, locals, files, history, api>>

\* A device is unplugged.
Detach ==
    /\ pc \notin {"main", "usage_error", "start", "fetch_boards", "returned",
                 "exited", "api"}
    /\ \E p \in attached :
        /\ attached' = attached \ {p}
        /\ arrived' = arrived \ {p}
    /\ UNCHANGED <<config, fields, locals, files, plugs, history, api>>

Next ==
    \/ Main
    \/ RunFetchVersion
    \/ RunFetchBoards
    \/ RunSnapshot
    \/ Poll
    \/ ForNewPort
    \/ Sleep
    \/ FlashStart
    \/ Download
    \/ SaveTemp
    \/ Erase
    \/ Write
    \/ PostFlash
    \/ Finish
    \/ AfterFlash
    \/ LoopExcept
    \/ Interrupt
    \/ Attach
    \/ Detach

Spec == Init /\ [][Next]_vars

\* ------------------------------------------------------------------------
\* Properties
\* ------------------------------------------------------------------------

\* The claims' reading of "b is a member of the board list".
BoardListed(b, boards) == b \in {boards[i] : i \in DOMAIN boards}

\* Positions of run at which no flash session is in progress.
OutsideSession ==
    pc \in {"main", "usage_error", "start", "fetch_boards", "snapshot", "poll",
            "for", "sleep", "init_delay", "after_flash", "flash_raised",
            "returned", "exited"}

\* C1: a flash session that fails never ends the run: the exception that
\* flash_device raises into the poll loop leaves run in the loop, ready for
\* the next device.
C1_FailedSessionKeepsLoopRunning ==
    [][(pc = "flash_raised" /\ pc' # pc)
          => pc' \in {"for", "sleep", "poll"}]_vars

\* C2: whenever the flashing tool has been invoked in a session, or the
\* session has a temporary file, or any temporary file exists, the digest of
\* the bytes that session downloaded agreed with the manifest's digest.
C2_VerifiedBeforeTool ==
    (tool_log # <<>> \/ temp_firmware # 0 \/ files # {}) => verified

C2_Witness ==
    /\ verified
    /\ Len(tool_log) = 2
    /\ tool_log[2].op = "write-flash"
    /\ files # {}

\* C3: download_firmware returns the downloaded bytes exactly when both
\* fetches succeeded, the manifest has a firmware.bin record and its digest
\* equals sha256 of the bytes up to letter case; on a differing digest it
\* raises "Hash mismatch" with both digests and returns nothing.
C3_DigestCheck ==
    ret.op = "download_firmware" =>
        /\ ret.out.ok <=> DigestAgrees(ret.fw, ret.hash)
        /\ ret.out.ok => ret.out.data = ret.fw.content
        /\ (ret.fw.ok /\ ret.hash.ok /\ ParseHashFile(ret.hash.text).some
              /\ ~DigestAgrees(ret.fw, ret.hash)) =>
                /\ ret.out.data = ""
                /\ ret.out.exc = "ValueError"
                /\ ret.out.msg.kind = "Hash mismatch"
                /\ ret.out.msg.expected = ParseHashFile(ret.hash.text).val
                /\ ret.out.msg.got = Sha256Hex(ret.fw.content)

\* An upper-case manifest digest was accepted.
C3_Witness ==
    /\ ret.op = "download_firmware"
    /\ ret.out.ok
    /\ ParseHashFile(ret.hash.text).val # Sha256Hex(ret.fw.content)

\* C4: when no flash session is in progress, however the last one ended, no
\* temporary firmware file exists.
C4_NoTempFileLeft ==
    OutsideSession => files = {}

\* C5: a board that is in the fetched list passes validation, and the poll
\* loop is entered in status waiting; a board that is not in the list ends
\* run with status error before any port enumeration, download, temporary
\* file, tool invocation or serial command.
C5_BoardValidatedFirst ==
    [][/\ (pc = "fetch_boards" /\ boards_cache'.some
             /\ BoardListed(board, boards_cache'.val)) => pc' = "snapshot"
       /\ (pc = "snapshot" /\ pc' = "poll") =>
             /\ state' = "waiting"
             /\ BoardListed(board, boards_cache'.val)
       /\ (boards_cache'.some /\ ~BoardListed(board, boards_cache'.val)) =>
             /\ pc' = "returned"
             /\ state' = "error"
             /\ io' = {}
             /\ known_ports' = {}
             /\ flashed' = {}]_vars

C5_Witness ==
    /\ boards_cache.some
    /\ ~BoardListed(board, boards_cache.val)
    /\ pc = "returned"
    /\ attached # {}

\* C6: with a successful enumeration C and known set K, detect_new_port
\* returns exactly C \ K (None when that is empty) and leaves the known set
\* equal to C; called again with the same enumeration it returns None.
C6_PortDiff ==
    (ret.op = "detect_new_port" /\ ret.enum.ok) =>
        /\ ret.out.val = ret.enum.ports \ ret.known
        /\ ret.out.some <=> (ret.enum.ports \ ret.known # {})
        /\ known_ports = ret.enum.ports
        /\ (ret.previous.ok /\ ret.previous.ports = ret.enum.ports) =>
              ~ret.out.some

\* Known {ttyUSB0}, enumerated {ttyUSB0, ttyUSB1} twice in a row.
C6_Witness ==
    /\ ret.op = "detect_new_port"
    /\ ret.enum = EnumOk(Ports)
    /\ ret.previous = EnumOk(Ports)
    /\ calls = 3

\* C7: a port of the initial snapshot that has been in every enumeration
\* since is never reported as new and never flashed.
C7_InitialPortsNeverNew ==
    initial_ports \cap (reported \cup flashed) = {}

\* One port stayed attached from the snapshot on while another was reported
\* and flashed.
C7_Witness ==
    /\ initial_ports # {}
    /\ flashed # {}
    /\ pc = "poll"

\* C8: after a successful fetch_version (fetch_boards), a later call issues
\* no HTTP request and returns the value the first one returned.
C8_AtMostOneFetch ==
    (ret.op \in {"fetch_version", "fetch_boards"} /\ ret.after_success) =>
        /\ ret.out.requests = 0
        /\ ~ret.out.raised
        /\ ret.out.ret = ret.first

\* C9: the commands are written in the configured order, each followed by
\* one newline, one write per command; and a connection that was opened is
\* closed exactly once, whatever fails.
C9_OrderedWritesClosedOnce ==
    ret.op = "execute_post_flash_commands" =>
        /\ ret.fault.op = "none" =>
              ret.out.writes = [i \in DOMAIN post_flash_commands |->
                                   post_flash_commands[i] \o <<LF>>]
        /\ ret.out.opened = 1 => ret.out.closed = 1

\* C10: after a serial failure in the post-flash commands nothing was
\* raised into flash_device, the session is never in status error, and when
\* flash_device has returned the status is done and the temporary file is
\* gone.
C10_PostFlashFailureNotFatal ==
    post_flash.fault \notin {"", "none"} =>
        /\ ~post_flash.raised
        /\ pc \in {"finish", "after_flash", "returned", "exited"}
        /\ state \in {"flashing", "done"}
        /\ pc = "after_flash" =>
              state = "done" /\ files = {} /\ temp_firmware \notin files

C10_Witness ==
    /\ pc = "after_flash"
    /\ post_flash.fault = "write"
    /\ post_flash.opened = 1
    /\ state = "done"
    /\ files = {}

\* The esptool.main call of `op` of the current session ran to its end and
\* reported success (a return or SystemExit(0) of the tool itself).
ToolCompleted(op) ==
    \E i \in DOMAIN tool_log :
        /\ tool_log[i].op = op
        /\ tool_log[i].outcome \in {"return", "exit0"}

\* Every step of the current session succeeded: the download and the digest
\* check, the erase when one was asked for, and the write.
SessionAllSucceeded ==
    /\ verified
    /\ erase_flash => ToolCompleted("erase-flash")
    /\ ToolCompleted("write-flash")

\* C11: flash_device returns normally, with status done, exactly when the
\* download, the digest check, the erase (if asked for) and the write all
\* succeeded; in every other case it has set status error and raises.
C11_DoneIffAllSucceeded ==
    /\ pc = "after_flash" => (state = "done" /\ SessionAllSucceeded)
    /\ state = "done" => SessionAllSucceeded
    /\ pc = "flash_raised" => (state = "error" /\ ~SessionAllSucceeded)

\* Positions of run after the version has been resolved.
VersionResolved ==
    pc \in {"fetch_boards", "snapshot", "poll", "for", "sleep", "init_delay",
            "download", "tempfile", "erase", "write", "post_flash", "finish",
            "after_flash", "flash_raised"}

\* C12: a version given on the command line with --version is accepted and
\* is the version the run uses: the command line is not rejected, and once
\* run has resolved the version it is the one that was given.
C12_ExplicitVersionUsed ==
    argv_version.some =>
        /\ pc # "usage_error"
        /\ VersionResolved => version = argv_version.val

\* Invocation i of the current session verified the written image: it is a
\* verify-flash call, or a write-flash call (which reads the flash back
\* before it ends), and it ran to its end and reported success.
WriteVerifiedBy(i) ==
    /\ tool_log[i].op \in {"verify-flash", "write-flash"}
    /\ tool_log[i].outcome \in {"return", "exit0"}

\* C13: a session has status done only after the flashing tool verified
\* the written image, by a verification that ran to its end successfully.
C13_DoneImpliesWriteVerified ==
    state = "done" => \E i \in DOMAIN tool_log : WriteVerifiedBy(i)

\* C14: a KeyboardInterrupt raised while run polls or sleeps (no SIGINT
\* handler replaces it) ends the loop cleanly: run returns, the status is
\* left as it was and is not error, nothing is downloaded, written to disk
\* or handed to the flashing tool by that step, and after run has returned
\* no step of the program follows.
C14_InterruptEndsLoopCleanly ==
    [][/\ (~cli_handler /\ pc \in {"poll", "sleep"}
              /\ pc' \notin {"poll", "sleep", "for"})
          => /\ pc' = "returned"
             /\ state' = state
             /\ state' # "error"
             /\ UNCHANGED <<io, tool_log, files, post_flash, known_ports>>
       /\ pc # "returned"]_vars

C14_Witness ==
    /\ ~cli_handler
    /\ pc = "returned"
    /\ state = "waiting"
    /\ consecutive_checks > 0
    /\ "enumerate" \in io

\* C15: fetch_boards_for_help never raises; when one of its two requests
\* failed it returns the one-element placeholder list, and when both
\* succeeded it returns the lines of the boards file, each trimmed, in the
\* order of the file.
C15_HelpBoardsNeverRaises ==
    ret.op = "fetch_boards_for_help" =>
        /\ ~ret.out.raised
        /\ (~ret.vreply.ok \/ ~ret.breply.ok)
             => ret.out.ret = <<UnableToFetch>>
        /\ (ret.vreply.ok /\ ret.breply.ok)
             => LET lines == SplitLines(Strip(ret.breply.text))
                IN  /\ Len(ret.out.ret) = Len(lines)
                    /\ \A i \in DOMAIN lines : ret.out.ret[i] = Strip(lines[i])

C15_Witness ==
    /\ ret.op = "fetch_boards_for_help"
    /\ ret.vreply.ok
    /\ ~ret.breply.ok
    /\ ret.out.ret = <<UnableToFetch>>

StatusValues == {"waiting", "flashing", "done", "error"}

StatusTransitions ==
    { <<"waiting", "flashing">>, <<"flashing", "done">>,
      <<"flashing", "error">>, <<"done", "waiting">>, <<"error", "waiting">>,
      <<"waiting", "error">> }

\* Positions of run inside its poll loop, a session of flash_device included.
InPollLoop ==
    pc \in {"poll", "for", "sleep", "init_delay", "after_flash",
            "flash_raised"} \/ InSession

\* C16: the status is always one of waiting, flashing, done, error, and it
\* changes only along waiting->flashing (for a detected port, auto-flash
\* enabled), flashing->done, flashing->error, done->waiting,
\* error->waiting and waiting->error; in the poll loop done and error are
\* entered from flashing only, and flashing is entered from waiting only.
C16_StatusTransitions ==
    [][/\ state \in StatusValues
       /\ state' \in StatusValues
       /\ state' # state =>
            /\ <<state, state'>> \in StatusTransitions
            /\ (InPollLoop /\ state' \in {"done", "error"})
                 => state = "flashing"
            /\ state' = "flashing"
                 => (state = "waiting" /\ auto_flash /\ port \in reported)
            /\ <<state, state'>> = <<"waiting", "error">> => ~InPollLoop]_vars

C16_Witness ==
    /\ state = "flashing"
    /\ Cardinality(flashed) = 2

\* The esptool.main call ended by returning or by a SystemExit with code 0
\* (that of the tool, or the one the SIGINT handler raises inside the call).
ZeroExit(outcome) == outcome \in {"return", "exit0", "sigint_exit0"}

\* C17: in one session erase-flash and write-flash are each invoked at most
\* once, and a tool invocation that ended otherwise than by a clean / zero
\* exit is the last one of its session: no tool invocation and no post-flash
\* command follows it, and the session does not reach done.
C17_FailedToolEndsSession ==
    /\ \A op \in {"erase-flash", "write-flash"} :
         Cardinality({i \in DOMAIN tool_log : tool_log[i].op = op}) <= 1
    /\ \A i \in DOMAIN tool_log :
         ~ZeroExit(tool_log[i].outcome) =>
            /\ i = Len(tool_log)
            /\ post_flash = NoPostFlash
            /\ state = "error"
            /\ pc \in {"flash_raised", "returned"}

C17_Witness ==
    /\ erase_flash
    /\ pc = "returned"
    /\ tool_log = <<[op |-> "erase-flash", outcome |-> "exit_nonzero"]>>

\* C18: with erase asked for, a write-flash invocation is preceded in its
\* session by an erase-flash invocation that ran to its end and reported
\* success; with erase not asked for, there is no erase-flash invocation.
C18_EraseCompletesBeforeWrite ==
    /\ erase_flash =>
         \A i \in DOMAIN tool_log :
            tool_log[i].op = "write-flash" =>
               \E j \in 1..(i - 1) :
                  /\ tool_log[j].op = "erase-flash"
                  /\ tool_log[j].outcome \in {"return", "exit0"}
    /\ ~erase_flash =>
         \A i \in DOMAIN tool_log : tool_log[i].op # "erase-flash"

\* C19: with auto-flash disabled the run never downloads, never creates a
\* temporary file, never invokes the flashing tool and never sends a
\* post-flash command; no session of flash_device is entered, from the
\* initial snapshot on the status is waiting, and after a detection the
\* loop is at its next port or at its sleep.
C19_NoAutoFlashOnlyLogs ==
    ~auto_flash =>
        /\ io \subseteq {"enumerate"}
        /\ files = {}
        /\ tool_log = <<>>
        /\ post_flash = NoPostFlash
        /\ flashed = {}
        /\ ~InSession
        /\ pc \notin {"init_delay", "after_flash", "flash_raised"}
        /\ "enumerate" \in io => state = "waiting"

C19_Witness ==
    /\ ~auto_flash
    /\ reported # {}
    /\ pc = "sleep"
    /\ consecutive_checks > 0

\* C20: with auto-flash enabled, once run is done with the ports of a poll
\* (it sleeps or polls again, or a failed session has ended its work on
\* them), flash_device has been called for every port a poll reported: a
\* failed session for one port does not make run skip another.
C20_EveryNewPortFlashed ==
    (/\ auto_flash
     /\ \/ pc \in {"sleep", "poll"}
        \/ pc = "returned" /\ state = "error")
    => reported \subseteq flashed

\* C21: flash sessions are strictly sequential: at most one call of
\* flash_device is in progress at any time, the port in progress is the one
\* run is handling, a call starts only when none is in progress, and no
\* poll is taken (and run does not sleep) while one is in progress.
C21_SessionsSequential ==
    /\ Cardinality(active) <= 1
    /\ active \subseteq {port}
    /\ InSession <=> active # {}
    /\ pc \in {"poll", "sleep", "for", "init_delay", "snapshot"} => active = {}

C21_Witness ==
    /\ Cardinality(flashed) = 2
    /\ active = {port}
    /\ new_ports = <<>>
    /\ pc = "write"

\* C22: in every interleaving of the two fetches of download_firmware, the
\* parsing starts only when both fetches have finished; the call ends only
\* when both have finished; when a fetch failed the call fails and returns
\* no bytes; and the outcome is the one the two replies determine, whatever
\* the order in which the fetches finished.
C22_DownloadsJoined ==
    /\ pc = "dl_parse" =>
         /\ Len(dl.order) = 2
         /\ dl.fw.ok /\ dl.hash.ok
    /\ ret.op = "download_firmware_threads" =>
         /\ Len(ret.order) = 2
         /\ ret.out = DownloadFirmware(ret.fw, ret.hash)
         /\ (~ret.fw.ok \/ ~ret.hash.ok) =>
               (~ret.out.ok /\ ret.out.data = "")

C22_Witness ==
    /\ ret.op = "download_firmware_threads"
    /\ ret.order = <<"hash", "fw">>
    /\ ret.fw.ok
    /\ ~ret.hash.ok
    /\ ~ret.out.ok

\* The tokens of line i of a manifest, split at whitespace.
ManifestTokens(text, i) == SplitWords(SplitLines(text)[i])

\* Line i of a manifest is a record for the firmware: it has a digest and a
\* file name (its remaining tokens joined by single spaces) that is
\* firmware.bin or ./firmware.bin.
ManifestMatch(text, i) ==
    /\ Len(ManifestTokens(text, i)) >= 2
    /\ JoinSpace(Tail(ManifestTokens(text, i)))
          \in { <<"firmware.bin">>, <<"./firmware.bin">> }

\* C23: with both fetches successful, the expected digest is the first token
\* of the first line of the manifest that is a record for the firmware
\* (lines with fewer than two tokens are ignored); when there is no such
\* line, download_firmware fails with the missing-digest error and returns
\* no bytes, whatever the payload; when there is one, the payload is
\* returned exactly when its digest agrees with that token.
C23_ManifestParsing ==
    (ret.op = "download_firmware" /\ ret.fw.ok /\ ret.hash.ok) =>
        LET text == ret.hash.text
            matches == {i \in DOMAIN SplitLines(text) : ManifestMatch(text, i)}
        IN  IF matches = {}
            THEN /\ ~ret.out.ok
                 /\ ret.out.data = ""
                 /\ ret.out.msg.kind = "Could not find hash for firmware.bin"
            ELSE LET first == CHOOSE i \in matches :
                                  \A j \in matches : i <= j
                     digest == ManifestTokens(text, first)[1]
                 IN  /\ ret.out.msg.kind # "Could not find hash for firmware.bin"
                     /\ ~ret.out.ok => ret.out.msg.expected = digest
                     /\ ret.out.ok <=>
                           SameHexIgnoringCase(digest, Sha256Hex(ret.fw.content))

C23_Witness ==
    /\ ret.op = "download_firmware"
    /\ ret.fw.ok
    /\ ret.hash.ok
    /\ Len(SplitWords(ret.hash.text)) = 3
    /\ ret.out.msg.kind = "Could not find hash for firmware.bin"

\* C24: the poll interval is always between INITIAL_POLL_INTERVAL and
\* MAX_POLL_INTERVAL; it is INITIAL_POLL_INTERVAL while the no-activity
\* counter is at most POLL_BACKOFF_THRESHOLD, and it is MAX_POLL_INTERVAL
\* once 15 consecutive idle ticks have passed (five steps of 0.1 from 0.5).
C24_BackoffReachesMaxAt15 ==
    /\ FloatRank(INITIAL_POLL_INTERVAL) <= FloatRank(poll_interval)
    /\ FloatRank(poll_interval) <= FloatRank(MAX_POLL_INTERVAL)
    /\ consecutive_checks <= POLL_BACKOFF_THRESHOLD
          => poll_interval = INITIAL_POLL_INTERVAL
    /\ consecutive_checks >= 15 => poll_interval = MAX_POLL_INTERVAL

\* C25: when the loop goes to sleep after a tick that reported new devices
\* (it leaves the `for` over the reported ports), the poll interval is
\* INITIAL_POLL_INTERVAL and the no-activity counter is 0, with auto-flash
\* enabled or not and whatever the two were before the tick.
C25_DetectionResetsBackoff ==
    [][(pc = "for" /\ pc' = "sleep")
          => (poll_interval' = INITIAL_POLL_INTERVAL
              /\ consecutive_checks' = 0)]_vars

C25_Witness ==
    /\ pc = "for"
    /\ new_ports # <<>>
    /\ poll_interval = MAX_POLL_INTERVAL
    /\ consecutive_checks > POLL_BACKOFF_THRESHOLD

\* C26: a poll whose enumeration fails is a tick with no new devices: the
\* known set is unchanged, nothing is reported, the no-activity counter
\* goes up by one, no session starts, the status is unchanged, and the loop
\* goes to its sleep and from there to the next poll.
C26_EnumerationFailureIsIdleTick ==
    [][(pc = "poll" /\ pc' \in {"sleep", "for"} /\ enum_failed')
          => /\ pc' = "sleep"
             /\ known_ports' = known_ports
             /\ reported' = reported
             /\ new_ports' = new_ports
             /\ consecutive_checks' = consecutive_checks + 1
             /\ state' = state
             /\ flashed' = flashed
             /\ active' = {}]_vars

\* The enumeration failed while a device not yet known was attached, and
\* the loop is at its next poll.
C26_Witness ==
    /\ enum_failed
    /\ pc = "poll"
    /\ attached \ known_ports # {}
    /\ consecutive_checks > 0
    /\ state = "waiting"

\* C27: after a poll whose enumeration succeeded, new devices or not, the
\* known set is exactly the enumerated set, so ports that detached are
\* forgotten; and the ports the poll reports are exactly the enumerated
\* ports the known set did not hold, so a port that was absent from an
\* earlier enumeration is reported as new when it is present again.
C27_KnownIsLastEnumeration ==
    [][(pc = "poll" /\ pc' \in {"sleep", "for"} /\ ~enum_failed')
          => /\ known_ports' = attached
             /\ pc' = "for" <=> attached \ known_ports # {}
             /\ pc' = "for" =>
                   {new_ports'[i] : i \in DOMAIN new_ports'}
                       = attached \ known_ports]_vars

\* A port that was flashed before is reported as new once more.
C27_Witness ==
    /\ pc = "for"
    /\ new_ports # <<>>
    /\ Head(new_ports) \in flashed
    /\ ~enum_failed

\* run has returned from its startup with status error: no enumeration, no
\* poll and no session has taken place.
StartupFailed ==
    /\ pc = "returned"
    /\ state = "error"
    /\ io = {}
    /\ known_ports = {}
    /\ reported = {}
    /\ flashed = {}
    /\ consecutive_checks = 0

\* C28: when fetch_version or fetch_boards fails at startup (the step ends
\* with nothing cached), run returns with status error before the initial
\* snapshot, before any poll and before any session, and nothing follows:
\* the fetch is not tried again.
C28_StartupFailureEndsRun ==
    [][/\ (pc = "start" /\ pc' \notin {"start", "exited"}
              /\ ~version_cache'.some) => StartupFailed'
       /\ (pc = "fetch_boards" /\ pc' \notin {"fetch_boards", "exited"}
              /\ ~boards_cache'.some) => StartupFailed'
       /\ StartupFailed => FALSE]_vars

\* The board list could not be fetched.
C28_Witness ==
    /\ StartupFailed
    /\ version_cache.some
    /\ ~boards_cache.some

\* C29: an exception (not an interrupt) that reaches the poll loop of run
\* ends the loop with status error: run returns, and no poll, session or
\* tool invocation follows.
C29_LoopExceptionEndsRun ==
    [][/\ (pc = "flash_raised" /\ pc' # pc)
          => /\ pc' = "returned"
             /\ state' = "error"
             /\ UNCHANGED <<io, tool_log, flashed, known_ports, reported>>
       /\ (pc = "returned" /\ state = "error") => FALSE]_vars

C29_Witness ==
    /\ pc = "returned"
    /\ state = "error"
    /\ flashed # {}
    /\ "tool" \in io

\* C30: the list fetch_boards returns holds no empty string: it is made of
\* the non-empty trimmed lines of the boards file, so the empty board
\* identifier is never in the catalog.
C30_NoEmptyBoard ==
    (ret.op = "fetch_boards" /\ ~ret.out.raised) =>
        /\ \A i \in DOMAIN ret.out.ret : ret.out.ret[i] # <<>>
        /\ ~BoardInList(<<>>, ret.out.ret)

\* C31: a fetch_boards call that returns, returns the board list of the
\* version it was asked for, whatever was fetched before on the same object.
C31_BoardsOfRequestedVersion ==
    (ret.op = "fetch_boards" /\ ~ret.out.raised) =>
        ret.out.ret = BoardLines(BoardsText(ret.requested))

\* C32: post-flash commands are run only in a session whose write-flash ran
\* to its end successfully (and whose download was verified), after that
\* write and while the status still is flashing; with an empty command
\* list no serial connection is ever opened;
\* and a session that failed has run no command.
C32_PostFlashOnlyAfterWrite ==
    /\ (pc = "post_flash" \/ post_flash # NoPostFlash) =>
          /\ post_flash_commands # <<>>
          /\ verified
          /\ ToolCompleted("write-flash")
    /\ post_flash_commands = <<>> => "serial" \notin io
    /\ pc = "flash_raised" => post_flash = NoPostFlash
    /\ pc = "post_flash" => state = "flashing"

\* C33: when a session fails before its temporary file exists (the download
\* or its verification raised), the failure handler of flash_device
\* attempts no deletion, sets status error, and the failure that leaves
\* flash_device is the original one.
C33_EarlyFailureKeepsOriginalError ==
    ret.op = "flash_device" =>
        /\ ~ret.out.unlink
        /\ ret.out.state = "error"
        /\ state = "error"
        /\ ret.out.raised = ret.original


\* C34: an interrupt delivered while the flashing tool runs (the handler of
\* the CLI raises SystemExit(0) inside the tool call) never makes that erase
\* or write count as successful: no further tool invocation follows it, no
\* post-flash command is sent, and the session never gets status done.
C34_InterruptedToolNeverSucceeds ==
    \A i \in DOMAIN tool_log :
        tool_log[i].outcome = "sigint_exit0" =>
            /\ i = Len(tool_log)
            /\ pc \notin {"write", "post_flash", "finish", "after_flash"}
            /\ post_flash = NoPostFlash
            /\ state # "done"


\* C35: a port is flashed at most once per attachment: no session is
\* started, or in progress, for a port whose earlier session is over and
\* that every successful enumeration since has listed.
C35_FlashedOncePerAttachment ==
    /\ (pc = "init_delay" \/ InSession) => port \notin present_since
    /\ pc = "for" => \A i \in DOMAIN new_ports : new_ports[i] \notin present_since

\* A flashed device stayed plugged in and a later poll found nothing new.
C35_Witness ==
    /\ pc = "sleep"
    /\ present_since # {}
    /\ present_since \subseteq attached
    /\ consecutive_checks >= 1
    /\ ~enum_failed


\* C36: a device plugged in while the session of another device is in
\* progress, and still attached at the first poll after that session, is
\* reported as new by that poll (when its enumeration succeeds).
C36_ArrivalDuringSessionReported ==
    [][(pc = "poll" /\ pc' \in {"for", "sleep"} /\ ~enum_failed') =>
          \A p \in arrived :
             /\ pc' = "for"
             /\ \E i \in DOMAIN new_ports' : new_ports'[i] = p]_vars

============================================================================
